---- MODULE Spec2Model ----
(***************************************************************************)
(* A model of the retry-augmented request pipeline of the httpclient       *)
(* package: Client.Do, the retrier loop it runs the pipeline in, the       *)
(* pipeline Client.do, the default retry classifier, the request options   *)
(* and the JSON/XML wrappers.                                              *)
(***************************************************************************)
EXTENDS Integers, Sequences, FiniteSets, TLC

\* The logical calls issued on one client configuration.
Calls == {"c1", "c2"}

\* Longest backoff schedule explored.
MaxBackoff == 2

\* Most call-specific options one call passes.
MaxCallOpts == 2

\* DefaultTimeout = 15 * time.Second (in seconds).
DefaultTimeout == 15

\* A timeout set by the Timeout(...) client option (in seconds).
ConfiguredTimeout == 5

\* One backoff entry (in milliseconds).
BackoffStep == 10

----------------------------------------------------------------------------
\* Errors.  Every error value is a record of the same shape.

Err(kind, code, text) == [kind |-> kind, code |-> code, text |-> text]

\* The nil error.
NoErr == Err("nil", 0, "")

\* &HTTPError{StatusCode, StatusText}
HTTPError(code, status) == Err("HTTPError", code, status)

----------------------------------------------------------------------------
\* Contexts.  A context is cancelled when its root is; an option may derive
\* a child from the context it is handed.

Background == [root |-> "background", derived |-> FALSE]

CallerCtx(c) == [root |-> c, derived |-> FALSE]

WithValue(ctx) == [root |-> ctx.root, derived |-> TRUE]

----------------------------------------------------------------------------
\* Request options.

HeaderKeys == {"Content-Type", "X-Trace", "Accept-Encoding"}

NoHeader == [k \in HeaderKeys |-> ""]

\* The keys a query may hold, in the order url.Values.Encode writes them
\* (sorted by key).
QueryKeyOrder == <<"x", "y">>

QueryKeys == {QueryKeyOrder[i] : i \in DOMAIN QueryKeyOrder}

\* A url.Values without entries.
NoValues == [k \in QueryKeys |-> <<>>]

Opt(kind, key, value) ==
    [kind |-> kind, key |-> key, value |-> value, values |-> NoValues]

\* One "k=v" pair of a raw query; ok is FALSE for a pair url.ParseQuery
\* cannot parse (it is silently discarded by URL.Query()).
Pair(k, v) == [k |-> k, v |-> v, ok |-> TRUE]

BadPair == [k |-> "%zz", v |-> "", ok |-> FALSE]

RECURSIVE ValuesFor(_, _)
\* The values of key k in a raw query, in their order.
ValuesFor(raw, k) ==
    IF raw = <<>> THEN <<>>
    ELSE IF Head(raw).ok /\ Head(raw).k = k
         THEN <<Head(raw).v>> \o ValuesFor(Tail(raw), k)
         ELSE ValuesFor(Tail(raw), k)

\* req.URL.Query(): url.ParseQuery(RawQuery), malformed pairs dropped.
ParseQuery(raw) == [k \in QueryKeys |-> ValuesFor(raw, k)]

RECURSIVE EncodeFrom(_, _)
\* q.Encode(): "k=v" for every value of every key, keys sorted.
EncodeFrom(q, i) ==
    IF i > Len(QueryKeyOrder) THEN <<>>
    ELSE [j \in 1..Len(q[QueryKeyOrder[i]]) |->
                Pair(QueryKeyOrder[i], q[QueryKeyOrder[i]][j])]
         \o EncodeFrom(q, i + 1)

Encode(q) == EncodeFrom(q, 1)

\* Mutant: q.Set instead of q.Add -- the last supplied value replaces the list.
MergeSet(q, values) ==
    [k \in QueryKeys |->
        IF values[k] = <<>> THEN q[k] ELSE <<values[k][Len(values[k])]>>]

\* for k, v := range values { for _, vv := range v { q.Add(k, vv) } }
Merge(q, values) == [k \in QueryKeys |-> q[k] \o values[k]]

\* SetQuery(values): q := req.URL.Query(); q.Add...; RawQuery = q.Encode()
SetQuery(values) ==
    [kind |-> "SetQuery", key |-> "", value |-> "", values |-> values]

\* SetHeader(key, value): req.Header.Set(key, value); return ctx, nil
SetHeader(key, value) == Opt("SetHeader", key, value)

SetTypeXML == SetHeader("Content-Type", "application/xml; charset=UTF-8")

SetTypeJSON == SetHeader("Content-Type", "application/json; charset=UTF-8")

SetTypeForm == SetHeader("Content-Type", "application/x-www-form-urlencoded")

\* Caller-written options: one that rejects the request, one that replaces
\* the context.
OptFail(name) == Opt("Fail", name, "")

OptCtx == Opt("WithValue", "trace", "")

\* reqOpt(ctx, req): the context, the request and the error an option leaves.
OptApply(opt, ctx, req) ==
    CASE opt.kind = "SetHeader" ->
            [ctx |-> ctx,
             req |-> [req EXCEPT !.header[opt.key] = opt.value],
             err |-> NoErr]
      [] opt.kind = "WithValue" ->
            [ctx |-> WithValue(ctx), req |-> req, err |-> NoErr]
      [] opt.kind = "SetQuery" ->
            [ctx |-> ctx,
             req |-> [req EXCEPT
                        !.query = Encode(Merge(ParseQuery(req.query), opt.values))],
             err |-> NoErr]
      [] OTHER ->
            [ctx |-> ctx, req |-> req, err |-> Err("option", 0, opt.key)]

\* append(client.reqOpts, reqOpts...) -- mutant: call options first.
AllOptsCallFirst(defaults, callOpts) == callOpts \o defaults

\* reqOpts = append(client.reqOpts, reqOpts...)
AllOpts(defaults, callOpts) == defaults \o callOpts

----------------------------------------------------------------------------
\* The retry classifier and the retrier.

Actions == {"Succeed", "Fail", "Retry"}

\* Mutant: a status error is fatal.
ClassifyFailOnHTTP(e) ==
    IF e = NoErr THEN "Succeed"
    ELSE IF e.kind = "HTTPError" THEN "Fail" ELSE "Retry"

\* Mutant: the error of an option is fatal.
ClassifyFailOnOption(e) ==
    IF e = NoErr THEN "Succeed"
    ELSE IF e.kind = "option" THEN "Fail" ELSE "Retry"

\* RetryClassifier.Classify
Classify(e) == IF e = NoErr THEN "Succeed" ELSE "Retry"

\* DefaultRetryClassifier = &RetryClassifier{}
DefaultRetryClassifier ==
    [custom |-> FALSE, onNil |-> "Succeed", onErr |-> "Retry"]

\* A classifier handed to SetRetrier: any map from {nil, non-nil} to an action.
CustomClassifiers ==
    {[custom |-> TRUE, onNil |-> a, onErr |-> b] : a \in Actions, b \in Actions}

AlwaysRetry == [custom |-> TRUE, onNil |-> "Retry", onErr |-> "Retry"]

\* r.class.Classify(ret)
ClassifyWith(class, e) ==
    IF class.custom
    THEN IF e = NoErr THEN class.onNil ELSE class.onErr
    ELSE Classify(e)

\* A backoff schedule of n entries.
Backoff(n) == [i \in 1..n |-> BackoffStep]

\* client.retrier == nil
NoRetrier == [set |-> FALSE, backoff |-> <<>>, class |-> DefaultRetryClassifier]

\* SetRetry(backoff): retrier.New(backoff, DefaultRetryClassifier)
SetRetry(backoff) ==
    [set |-> TRUE, backoff |-> backoff, class |-> DefaultRetryClassifier]

\* SetRetrier(retrier.New(backoff, class))
SetRetrier(backoff, class) == [set |-> TRUE, backoff |-> backoff, class |-> class]

\* Mutant: the last backoff entry is never used.
RetriesExhaustedOffByOne(n, backoff) == n + 1 >= Len(backoff)

\* retries >= len(r.backoff)
RetriesExhausted(n, backoff) == n >= Len(backoff)

\* Mutant: only Fail ends the loop.
StopsOnFailOnly(action) == action = "Fail"

\* case Succeed, Fail: return ret
Stops(action) == action \in {"Succeed", "Fail"}

----------------------------------------------------------------------------
\* Responses.

Texts == {"", "{a:1}", "<a>1</a>", "retry-me"}

\* The bytes a gzip writer produces for a text.
Gzip(t) == "gzip(" \o t \o ")"

IsGzip(bytes) == \E t \in Texts : bytes = Gzip(t)

\* What a gzip reader yields for well-formed bytes.
Gunzip(bytes) == CHOOSE t \in Texts : bytes = Gzip(t)

Resp(code, status, enc, body, readOK) ==
    [StatusCode |-> code, Status |-> status, ContentEncoding |-> enc,
     Body |-> body, readOK |-> readOK]

NoResp == Resp(0, "", "", "", TRUE)

\* The responses the transport may deliver.
Responses ==
    { Resp(200, "200 OK", "", "{a:1}", TRUE),
      Resp(200, "200 OK", "", "<a>1</a>", TRUE),
      Resp(200, "200 OK", "", "", TRUE),
      Resp(200, "200 OK", "gzip", Gzip("{a:1}"), TRUE),
      Resp(200, "200 OK", "gzip", "retry-me", TRUE),
      Resp(200, "200 OK", "", "retry-me", FALSE),
      Resp(299, "299 ", "", Gzip("retry-me"), TRUE),
      Resp(200, "200 OK", "GZIP", Gzip("{a:1}"), TRUE),
      Resp(300, "300 Multiple Choices", "", "retry-me", TRUE),
      Resp(404, "404 Not Found", "", "{a:1}", TRUE),
      Resp(503, "503 Service Unavailable", "", "retry-me", TRUE) }

\* Mutant: 300 passes the status check.
StatusOKInclusive(code) == code >= 200 /\ code <= 300

\* !(resp.StatusCode < 200 || resp.StatusCode >= 300)
StatusOK(code) == ~(code < 200 \/ code >= 300)

----------------------------------------------------------------------------
\* The codecs of the wrappers (encoding/json, encoding/xml).

\* codec.Marshal(v): the typed value "V1" has an encoding; a channel has none;
\* a json.RawMessage handed to the XML codec is marshalled as a byte slice.
Marshal(codec, v) ==
    CASE v = "V1" /\ codec = "json" -> [data |-> "{a:1}", err |-> NoErr]
      [] v = "V1" /\ codec = "xml" -> [data |-> "<a>1</a>", err |-> NoErr]
      [] v = "{a:1}" -> [data |-> "<RawMessage>{a:1}</RawMessage>", err |-> NoErr]
      [] OTHER -> [data |-> "", err |-> Err("marshal", 0, codec)]

\* codec.Unmarshal(text, result)
Unmarshal(codec, text) ==
    CASE codec = "json" /\ text = "{a:1}" -> [val |-> "V1", err |-> NoErr]
      [] codec = "xml" /\ text = "<a>1</a>" -> [val |-> "V1", err |-> NoErr]
      [] OTHER -> [val |-> "", err |-> Err("unmarshal", 0, codec)]

BodyVal(type, val) == [type |-> type, val |-> val]

\* The switch on the body's type in JSONClient.Do / XMLClient.Do.
EncodeBody(codec, b) ==
    CASE b.type = "nil" -> [data |-> "", err |-> NoErr]
      [] b.type \in {"string", "bytes"} -> [data |-> b.val, err |-> NoErr]
      [] b.type = "RawMessage" /\ codec = "json" -> [data |-> b.val, err |-> NoErr]
      [] OTHER -> Marshal(codec, b.val)

\* SetTypeJSON() / SetTypeXML(), prepended by the wrapper.
ContentTypeOpt(codec) == IF codec = "json" THEN SetTypeJSON ELSE SetTypeXML

\* Mutant: the content-type option is appended after the caller's options.
WrapperOptsLast(codec, callerOpts) == callerOpts \o <<ContentTypeOpt(codec)>>

\* reqOpts = append([]RequestOption{SetTypeJSON()}, reqOpts...)
WrapperOpts(codec, callerOpts) == <<ContentTypeOpt(codec)>> \o callerOpts

\* Mutant: a supplied destination is decoded into whatever the body is.
ShouldDecodeAnyBody(d, res) == d

\* if result != nil && resultStr != ""
ShouldDecode(d, res) == d /\ res # ""

\* What a failed Unmarshal may leave in the destination: it may have stored
\* the fields it decoded before the error.
PartialDecodes(old) == {old, "<partial>"}

\* Mutant: the wrapper goes on to Client.Do after a marshal failure.
EncodeFailContinues == "Do"

\* return err (after "marshal request body")
EncodeFailPc == "done"

----------------------------------------------------------------------------
\* Diagnostic records.

Absent == "<absent>"

Record(level, msg, e, body, res) ==
    [level |-> level, msg |-> msg, err |-> e, body |-> body, result |-> res]

----------------------------------------------------------------------------
\* State.

VARIABLES
    \* the Client struct, shared by every call
    Timeout, retrier, reqOpts, debugTraffic,
    \* the caller contexts that have been cancelled
    cancelled,
    \* where each call stands, and the arguments it was made with
    pc, args,
    \* JSONClient.Do / XMLClient.Do: the encoded body, the option list handed
    \* on, the error returned, the caller's result destination
    body, callOpts, werr, dest,
    \* Client.Do and retrier.Run: result, err (captured by the closure), ret,
    \* retries
    result, err, ret, retries,
    \* Client.do: ctx, req, the appended option list, the options run so far,
    \* resp, whether resp.Body was read from, and the values it returns
    ctx, req, opts, applied, resp, bodyRead, doResult, doErr,
    \* storage: the capacity of the client.reqOpts slice, the elements of its
    \* backing array past its length, whether the appended list of a call
    \* shares that array, and the response bodies a call holds open
    reqOptsCap, spare, aliased, openBodies,
    \* observation: the records emitted since the current attempt began, the
    \* attempts made, the transport dispatches, the attempts that returned nil,
    \* the request of the first dispatch
    logs, attempts, dispatches, okAttempts, sent

clientVars == <<Timeout, retrier, reqOpts, debugTraffic>>

wrapVars == <<body, callOpts, werr, dest>>

loopVars == <<result, err, ret, retries>>

doVars == <<ctx, req, opts, applied, resp, bodyRead, doResult, doErr>>

heapVars == <<reqOptsCap, spare, aliased, openBodies>>

obsVars == <<logs, attempts, dispatches, okAttempts, sent>>

vars ==
    <<clientVars, cancelled, pc, args, wrapVars, loopVars, doVars, heapVars, obsVars>>

\* http.NewRequest(method, url, strings.NewReader(body)): the request carries
\* context.Background() and no headers.
NewReq(b, q) == [ctx |-> Background, header |-> NoHeader, body |-> b, query |-> q]

NoReq == [ctx |-> Background, header |-> NoHeader, body |-> "", query |-> <<>>]

\* Mutant: the request of the previous attempt is dispatched again.
ReuseReq(old, b, q) == IF old = NoReq THEN NewReq(b, q) ELSE old

\* Every attempt builds its request from the method, URL and body alone.
FreshReq(old, b, q) == NewReq(b, q)

----------------------------------------------------------------------------
\* Configurations and arguments explored.

SeqsUpTo(S, n) == UNION {[1..k -> S] : k \in 0..n}

Retriers ==
    {NoRetrier}
    \cup {SetRetry(Backoff(n)) : n \in 0..MaxBackoff}
    \cup {SetRetrier(Backoff(n), cl) : n \in 0..MaxBackoff, cl \in CustomClassifiers}

CallOptions == {SetHeader("X-Trace", "t1"), OptFail("A"), OptCtx}

DefaultOptLists == {<<>>, <<SetTypeForm>>, <<OptFail("D")>>}

Bodies ==
    {BodyVal("nil", ""), BodyVal("string", "{a:1}"), BodyVal("RawMessage", "{a:1}"),
     BodyVal("typed", "V1"), BodyVal("typed", "chan")}

Args(wrapper, b, d, urlOK, ro) ==
    [wrapper |-> wrapper, body |-> b, dest |-> d, urlOK |-> urlOK, reqOpts |-> ro,
     query |-> <<>>]

\* The same call on a URL with the raw query q.
WithQuery(a, q) == [a EXCEPT !.query = q]

PlainArgs == Args("plain", BodyVal("string", "retry-me"), FALSE, TRUE, <<>>)

Cfg(t, r, ro, dbg, a) ==
    [Timeout |-> t, retrier |-> r, reqOpts |-> ro, debugTraffic |-> dbg, args |-> a]

\* Every retry policy, with and without a configured timeout.
RetryConfigs ==
    {Cfg(t, r, <<>>, TRUE, PlainArgs) : t \in {0, ConfiguredTimeout}, r \in Retriers}

\* Every option list, on a bad and on a good URL, without and with retry.
OptionConfigs ==
    {Cfg(0, r, d, TRUE, Args("plain", BodyVal("string", "retry-me"), FALSE, u, o)) :
        r \in {NoRetrier, SetRetry(Backoff(1))}, d \in DefaultOptLists,
        u \in BOOLEAN, o \in SeqsUpTo(CallOptions, MaxCallOpts)}

\* Every wrapper call.
WrapperConfigs ==
    {Cfg(ConfiguredTimeout, r, <<>>, dbg, Args(w, b, d, TRUE, o)) :
        r \in {NoRetrier, SetRetry(Backoff(1)), SetRetrier(Backoff(1), AlwaysRetry)},
        dbg \in BOOLEAN, w \in {"json", "xml"}, b \in Bodies, d \in BOOLEAN,
        o \in {<<>>, <<SetTypeForm>>}}

\* A url.Values with the values xs for x and ys for y.
Vals(xs, ys) == [k \in QueryKeys |-> IF k = "x" THEN xs ELSE ys]

\* The raw queries of the request URLs: none, one key, two keys out of
\* order, and one with a pair that cannot be parsed.
RawQueries ==
    {<<>>, <<Pair("x", "0")>>, <<Pair("y", "b"), Pair("x", "0")>>,
     <<Pair("x", "0"), BadPair, Pair("x", "1")>>}

QueryOptLists ==
    {<<SetQuery(Vals(<<"1", "2">>, <<>>))>>,
     <<SetQuery(Vals(<<"1">>, <<"c">>)), SetHeader("X-Trace", "t1")>>,
     <<SetQuery(Vals(<<"2", "1">>, <<>>)), SetQuery(Vals(<<"1">>, <<"c", "b">>))>>}

\* SetQuery on every URL, without and with retry.
QueryConfigs ==
    {Cfg(ConfiguredTimeout, r, <<>>, TRUE,
         WithQuery(Args("plain", BodyVal("string", "retry-me"), FALSE, TRUE, o), q)) :
        r \in {NoRetrier, SetRetry(Backoff(1))}, q \in RawQueries,
        o \in QueryOptLists}

\* Wrapper calls on a client with default options, with caller options that
\* set and that do not set the Content-Type.
WrapperOrderConfigs ==
    {Cfg(ConfiguredTimeout, r, d, TRUE, Args(w, BodyVal("typed", "V1"), TRUE, TRUE, o)) :
        r \in {NoRetrier, SetRetry(Backoff(1))},
        d \in {<<SetTypeForm>>, <<SetHeader("Accept-Encoding", "gzip")>>},
        w \in {"json", "xml"},
        o \in {<<>>, <<SetHeader("X-Trace", "t1")>>,
               <<SetTypeForm, SetHeader("Content-Type", "text/plain")>>}}

\* Requests that carry an Accept-Encoding header.
EncodingConfigs ==
    {Cfg(ConfiguredTimeout, NoRetrier, <<>>, TRUE,
         Args("plain", BodyVal("string", "retry-me"), FALSE, TRUE,
              <<SetHeader("Accept-Encoding", v)>>)) : v \in {"gzip", "identity"}}

\* Option lists that fail, under every backoff length.
OptionRetryConfigs ==
    {Cfg(ConfiguredTimeout, SetRetry(Backoff(n)), l.d, TRUE,
         Args("plain", BodyVal("string", "retry-me"), FALSE, TRUE, l.o)) :
        n \in 0..MaxBackoff,
        l \in {[d |-> <<>>, o |-> <<OptFail("A")>>],
               [d |-> <<OptFail("D")>>, o |-> <<>>],
               [d |-> <<SetTypeForm>>, o |-> <<SetHeader("X-Trace", "t1"), OptFail("A")>>]}}

Configs ==
    RetryConfigs \cup OptionConfigs \cup WrapperConfigs \cup QueryConfigs
    \cup WrapperOrderConfigs \cup EncodingConfigs \cup OptionRetryConfigs

\* Two calls made at once on one client: without retry on any transport
\* outcome, with retry on a URL that cannot be parsed, and with a call option
\* of their own each.
ConcConfigs ==
    {Cfg(t, NoRetrier, <<SetTypeForm>>, TRUE, a) :
        t \in {0, ConfiguredTimeout},
        a \in {PlainArgs, Args("json", BodyVal("typed", "V1"), TRUE, TRUE, <<>>),
               Args("xml", BodyVal("typed", "chan"), TRUE, TRUE, <<>>)}}
    \cup {Cfg(0, SetRetry(Backoff(1)), <<SetTypeForm>>, TRUE,
              Args("plain", BodyVal("string", "retry-me"), FALSE, FALSE, <<OptCtx>>))}
    \cup {Cfg(ConfiguredTimeout, NoRetrier, <<SetTypeForm>>, TRUE,
              Args("plain", BodyVal("string", "retry-me"), FALSE, TRUE,
                   <<SetHeader("X-Trace", "t1")>>))}

\* The trace value a call puts in its X-Trace header.
TraceOf(c) == IF c = "c1" THEN "t1" ELSE "t2"

\* The arguments of call c: those of the configuration, with the call's own
\* trace value.
ArgsFor(a, c) ==
    [a EXCEPT !.reqOpts =
        [i \in DOMAIN @ |->
            IF @[i] = SetHeader("X-Trace", "t1")
            THEN SetHeader("X-Trace", TraceOf(c)) ELSE @[i]]]

\* The unused capacity of the slice the caller hands to SetDefaultReqOpts.
SpareCap == 1

\* An element of a backing array that was never assigned.
NilOpt == Opt("nil", "", "")

\* Mutant: the caller's slice is stored as it is, spare capacity included.
KeepCap(len, capacity) == capacity

\* client.reqOpts = reqOpts[:len(reqOpts):len(reqOpts)]
ClipCap(len, capacity) == len

\* The first step of a call: a wrapper encodes the body, a plain call is in
\* Client.Do at once.
Start(a) == IF a.wrapper = "plain" THEN "Do" ELSE "wEncode"

InitWith(cfg, active) ==
    /\ Timeout = cfg.Timeout
    /\ retrier = cfg.retrier
    /\ reqOpts = cfg.reqOpts
    /\ debugTraffic = cfg.debugTraffic
    /\ cancelled = {}
    /\ args = [c \in Calls |-> IF c \in active THEN ArgsFor(cfg.args, c) ELSE PlainArgs]
    /\ pc = [c \in Calls |-> IF c \in active THEN Start(cfg.args) ELSE "off"]
    /\ body = [c \in Calls |-> IF args[c].wrapper = "plain" THEN args[c].body.val ELSE ""]
    /\ callOpts = [c \in Calls |-> IF args[c].wrapper = "plain" THEN args[c].reqOpts ELSE <<>>]
    /\ werr = [c \in Calls |-> NoErr]
    /\ dest = [c \in Calls |-> ""]
    /\ result = [c \in Calls |-> ""]
    /\ err = [c \in Calls |-> NoErr]
    /\ ret = [c \in Calls |-> NoErr]
    /\ retries = [c \in Calls |-> 0]
    /\ ctx = [c \in Calls |-> CallerCtx(c)]
    /\ req = [c \in Calls |-> NoReq]
    /\ opts = [c \in Calls |-> <<>>]
    /\ applied = [c \in Calls |-> <<>>]
    /\ resp = [c \in Calls |-> NoResp]
    /\ bodyRead = [c \in Calls |-> FALSE]
    /\ doResult = [c \in Calls |-> ""]
    /\ doErr = [c \in Calls |-> NoErr]
    /\ logs = [c \in Calls |-> <<>>]
    /\ attempts = [c \in Calls |-> 0]
    /\ dispatches = [c \in Calls |-> 0]
    /\ okAttempts = [c \in Calls |-> 0]
    /\ sent = [c \in Calls |-> NoReq]
    /\ reqOptsCap = ClipCap(Len(cfg.reqOpts), Len(cfg.reqOpts) + SpareCap)
    /\ spare = [i \in 1..SpareCap |-> NilOpt]
    /\ aliased = [c \in Calls |-> FALSE]
    /\ openBodies = [c \in Calls |-> 0]

\* One call on a configured client.
Init == \E cfg \in Configs : InitWith(cfg, {"c1"})

\* Two concurrent calls on a configured client.
InitConc == \E cfg \in ConcConfigs : InitWith(cfg, Calls)

----------------------------------------------------------------------------
\* JSONClient.Do / XMLClient.Do, before Client.Do.

Emit(c, rec) == logs' = [logs EXCEPT ![c] = Append(@, rec)]

\* The body switch, the marshal and the prepended content-type option.
WrapperEncode(c) ==
    /\ pc[c] = "wEncode"
    /\ LET e == EncodeBody(args[c].wrapper, args[c].body) IN
        IF e.err # NoErr
        THEN /\ Emit(c, Record("Error", "marshal request body", e.err, Absent, Absent))
             /\ werr' = [werr EXCEPT ![c] = e.err]
             /\ pc' = [pc EXCEPT ![c] = EncodeFailPc]
             /\ UNCHANGED <<body, callOpts>>
        ELSE /\ body' = [body EXCEPT ![c] = e.data]
             /\ callOpts' = [callOpts EXCEPT
                    ![c] = WrapperOpts(args[c].wrapper, args[c].reqOpts)]
             /\ pc' = [pc EXCEPT ![c] = "Do"]
             /\ UNCHANGED <<werr, logs>>
    /\ UNCHANGED <<clientVars, cancelled, args, dest, loopVars, doVars,
                   attempts, dispatches, okAttempts, sent>>
    /\ UNCHANGED heapVars

----------------------------------------------------------------------------
\* Client.Do and retrier.Run.

\* Client.Do reads client.retrier and calls the pipeline, directly or as the
\* first work() of retrier.Run (retries := 0).
ClientDo(c) ==
    /\ pc[c] = "Do"
    /\ retries' = [retries EXCEPT ![c] = 0]
    /\ pc' = [pc EXCEPT ![c] = "newReq"]
    /\ UNCHANGED <<clientVars, cancelled, args, wrapVars, result, err, ret,
                   doVars, obsVars>>
    /\ UNCHANGED heapVars

----------------------------------------------------------------------------
\* Client.do, one step per statement that can end the attempt.

\* http.NewRequest
NewRequest(c) ==
    /\ pc[c] = "newReq"
    /\ attempts' = [attempts EXCEPT ![c] = @ + 1]
    /\ logs' = [logs EXCEPT ![c] = <<>>]
    /\ ctx' = [ctx EXCEPT ![c] = CallerCtx(c)]
    /\ opts' = [opts EXCEPT ![c] = <<>>]
    /\ applied' = [applied EXCEPT ![c] = <<>>]
    /\ resp' = [resp EXCEPT ![c] = NoResp]
    /\ bodyRead' = [bodyRead EXCEPT ![c] = FALSE]
    /\ doResult' = [doResult EXCEPT ![c] = ""]
    /\ IF args[c].urlOK
       THEN /\ req' = [req EXCEPT ![c] = FreshReq(req[c], body[c], args[c].query)]
            /\ doErr' = [doErr EXCEPT ![c] = NoErr]
            /\ pc' = [pc EXCEPT ![c] = "append"]
       ELSE /\ req' = [req EXCEPT ![c] = NoReq]
            /\ doErr' = [doErr EXCEPT ![c] = Err("NewRequest", 0, "")]
            /\ pc' = [pc EXCEPT ![c] = "doRet"]
    /\ UNCHANGED <<clientVars, cancelled, args, wrapVars, loopVars,
                   dispatches, okAttempts, sent>>
    /\ aliased' = [aliased EXCEPT ![c] = FALSE]
    /\ UNCHANGED <<reqOptsCap, spare, openBodies>>

\* append(s, more...) writes into the backing array of s when the result
\* fits its capacity, and copies to a new array otherwise.
Fits(s, capacity, more) == Len(s) + Len(more) <= capacity

\* reqOpts = append(client.reqOpts, reqOpts...)
AppendOpts(c) ==
    /\ pc[c] = "append"
    /\ opts' = [opts EXCEPT ![c] = AllOpts(reqOpts, callOpts[c])]
    /\ aliased' = [aliased EXCEPT ![c] = Fits(reqOpts, reqOptsCap, callOpts[c])]
    /\ spare' = IF Fits(reqOpts, reqOptsCap, callOpts[c])
                THEN [i \in DOMAIN spare |->
                        IF i <= Len(callOpts[c]) THEN callOpts[c][i] ELSE spare[i]]
                ELSE spare
    /\ pc' = [pc EXCEPT ![c] =
            IF Len(AllOpts(reqOpts, callOpts[c])) = 0 THEN "chkTimeout" ELSE "applyOpts"]
    /\ UNCHANGED <<clientVars, cancelled, args, wrapVars, loopVars, ctx, req,
                   applied, resp, bodyRead, doResult, doErr, obsVars>>
    /\ UNCHANGED <<reqOptsCap, openBodies>>

\* reqOpts[i] as the loop reads it: from the backing array of client.reqOpts
\* when the appended list shares it, from the call's own array otherwise.
OptAt(c, i) ==
    IF aliased[c] /\ i > Len(reqOpts) THEN spare[i - Len(reqOpts)] ELSE opts[c][i]

\* One turn of: for _, reqOpt := range reqOpts { ctx, err = reqOpt(ctx, req) }
ApplyOpt(c) ==
    /\ pc[c] = "applyOpts"
    /\ LET i == Len(applied[c]) + 1
           r == OptApply(OptAt(c, i), ctx[c], req[c])
       IN /\ applied' = [applied EXCEPT ![c] = Append(@, OptAt(c, i))]
          /\ ctx' = [ctx EXCEPT ![c] = r.ctx]
          /\ req' = [req EXCEPT ![c] = r.req]
          /\ doErr' = [doErr EXCEPT ![c] = r.err]
          /\ pc' = [pc EXCEPT ![c] =
                  IF r.err # NoErr THEN "doRet"
                  ELSE IF i = Len(opts[c]) THEN "chkTimeout" ELSE "applyOpts"]
    /\ UNCHANGED <<clientVars, cancelled, args, wrapVars, loopVars, opts, resp,
                   bodyRead, doResult, obsVars>>
    /\ UNCHANGED heapVars

\* Mutant: the default is assigned on every attempt.
NeedsDefaultAlways(t) == t >= 0

\* client.Timeout == 0
NeedsDefault(t) == t = 0

\* if client.Timeout == 0
CheckTimeout(c) ==
    /\ pc[c] = "chkTimeout"
    /\ pc' = [pc EXCEPT ![c] = IF NeedsDefault(Timeout) THEN "setTimeout" ELSE "dispatch"]
    /\ UNCHANGED <<clientVars, cancelled, args, wrapVars, loopVars, doVars, obsVars>>
    /\ UNCHANGED heapVars

\* client.Timeout = DefaultTimeout
SetTimeout(c) ==
    /\ pc[c] = "setTimeout"
    /\ Timeout' = DefaultTimeout
    /\ pc' = [pc EXCEPT ![c] = "dispatch"]
    /\ UNCHANGED <<retrier, reqOpts, debugTraffic, cancelled, args, wrapVars,
                   loopVars, doVars, obsVars>>
    /\ UNCHANGED heapVars

\* The logger is built and client.Client.Do(req) is entered.
Dispatch(c) ==
    /\ pc[c] = "dispatch"
    /\ dispatches' = [dispatches EXCEPT ![c] = @ + 1]
    /\ pc' = [pc EXCEPT ![c] = "inflight"]
    /\ UNCHANGED <<clientVars, cancelled, args, wrapVars, loopVars, doVars,
                   logs, attempts, okAttempts>>
    /\ sent' = [sent EXCEPT ![c] = IF dispatches[c] = 0 THEN req[c] ELSE @]
    /\ UNCHANGED heapVars

\* Mutant: the body is logged whatever the toggle says.
LogBodyAlways(c) == body[c]

\* The fields the logger of this attempt always carries the body with.
LogBody(c) == IF debugTraffic THEN body[c] ELSE Absent

\* The errors the transport may end a dispatch with: a network failure, or
\* the cancellation of the context the request carries.
TransportErrors(r) ==
    {Err("dial", 0, "")}
    \cup (IF r.ctx.root \in cancelled THEN {Err("context canceled", 0, "")} ELSE {})

\* client.Client.Do(req) returns an error.
TransportError(c) ==
    /\ pc[c] = "inflight"
    /\ \E e \in TransportErrors(req[c]) :
        /\ doErr' = [doErr EXCEPT ![c] = e]
        /\ Emit(c, Record("Error", "do http request", e, LogBody(c), Absent))
    /\ pc' = [pc EXCEPT ![c] = "doRet"]
    /\ UNCHANGED <<clientVars, cancelled, args, wrapVars, loopVars, ctx, req,
                   opts, applied, resp, bodyRead, doResult,
                   attempts, dispatches, okAttempts, sent>>
    /\ UNCHANGED heapVars

\* client.Client.Do(req) returns a response.
TransportResponse(c) ==
    /\ pc[c] = "inflight"
    /\ \E r \in Responses : resp' = [resp EXCEPT ![c] = r]
    /\ pc' = [pc EXCEPT ![c] = "status"]
    /\ UNCHANGED <<clientVars, cancelled, args, wrapVars, loopVars, ctx, req,
                   opts, applied, bodyRead, doResult, doErr, obsVars>>
    /\ openBodies' = [openBodies EXCEPT ![c] = @ + 1]
    /\ UNCHANGED <<reqOptsCap, spare, aliased>>

\* if resp.StatusCode < 200 || resp.StatusCode >= 300
CheckStatus(c) ==
    /\ pc[c] = "status"
    /\ IF StatusOK(resp[c].StatusCode)
       THEN /\ pc' = [pc EXCEPT ![c] = "encoding"]
            /\ UNCHANGED <<doErr, logs>>
       ELSE /\ doErr' = [doErr EXCEPT
                    ![c] = HTTPError(resp[c].StatusCode, resp[c].Status)]
            /\ Emit(c, Record("Error", "bad http status code",
                              HTTPError(resp[c].StatusCode, resp[c].Status),
                              LogBody(c), Absent))
            /\ pc' = [pc EXCEPT ![c] = "doRet"]
    /\ UNCHANGED <<clientVars, cancelled, args, wrapVars, loopVars, ctx, req,
                   opts, applied, resp, bodyRead, doResult,
                   attempts, dispatches, okAttempts, sent>>
    /\ UNCHANGED heapVars

\* switch resp.Header.Get("Content-Encoding"): gzip.NewReader reads the gzip
\* header from the body and fails on bytes that are not gzip.
OpenReader(c) ==
    /\ pc[c] = "encoding"
    /\ IF resp[c].ContentEncoding = "gzip"
       THEN /\ bodyRead' = [bodyRead EXCEPT ![c] = TRUE]
            /\ IF IsGzip(resp[c].Body)
               THEN /\ pc' = [pc EXCEPT ![c] = "read"]
                    /\ UNCHANGED <<doErr, logs>>
               ELSE /\ doErr' = [doErr EXCEPT ![c] = Err("gzip", 0, "")]
                    /\ Emit(c, Record("Error", "create gzip reader",
                                      Err("gzip", 0, ""), LogBody(c), Absent))
                    /\ pc' = [pc EXCEPT ![c] = "doRet"]
       ELSE /\ pc' = [pc EXCEPT ![c] = "read"]
            /\ UNCHANGED <<bodyRead, doErr, logs>>
    /\ UNCHANGED <<clientVars, cancelled, args, wrapVars, loopVars, ctx, req,
                   opts, applied, resp, doResult, attempts, dispatches, okAttempts, sent>>
    /\ UNCHANGED heapVars

\* Mutant: a body that is gzip is decompressed whatever the header says.
DecodedBySniffing(r) == IF IsGzip(r.Body) THEN Gunzip(r.Body) ELSE r.Body

\* string(respData) for the reader chosen by the Content-Encoding header.
Decoded(r) == IF r.ContentEncoding = "gzip" THEN Gunzip(r.Body) ELSE r.Body

\* ioutil.ReadAll(reader), and on success the "request success" record and
\* return result, nil.
ReadAll(c) ==
    /\ pc[c] = "read"
    /\ bodyRead' = [bodyRead EXCEPT ![c] = TRUE]
    /\ IF resp[c].readOK
       THEN /\ doResult' = [doResult EXCEPT ![c] = Decoded(resp[c])]
            /\ Emit(c, Record("Debug", "request success", NoErr, LogBody(c),
                              IF debugTraffic THEN Decoded(resp[c]) ELSE Absent))
            /\ okAttempts' = [okAttempts EXCEPT ![c] = @ + 1]
            /\ UNCHANGED doErr
       ELSE /\ doErr' = [doErr EXCEPT ![c] = Err("read", 0, "")]
            /\ Emit(c, Record("Error", "read response body", Err("read", 0, ""),
                              LogBody(c), Absent))
            /\ UNCHANGED <<doResult, okAttempts>>
    /\ pc' = [pc EXCEPT ![c] = "doRet"]
    /\ UNCHANGED <<clientVars, cancelled, args, wrapVars, loopVars, ctx, req,
                   opts, applied, resp, attempts, dispatches, sent>>
    /\ UNCHANGED heapVars

----------------------------------------------------------------------------
\* Back in Client.Do: the closure handed to retrier.Run, and the Run loop.
\* Run is the loop of github.com/eapache/go-resiliency v1.1.0 (go.mod):
\*   retries := 0
\*   for { ret := work()
\*         switch r.class.Classify(ret) {
\*         case Succeed, Fail: return ret
\*         case Retry: if retries >= len(r.backoff) { return ret }
\*                     time.Sleep(r.calcSleep(retries)); retries++ } }

\* Mutant: the closure assigns result only when the attempt succeeded.
KeepResultOnError(old, new, e) == IF e = NoErr THEN new ELSE old

\* if result, err = client.do(...); err != nil { return err }; return nil
ClosureResult(old, new, e) == new

\* Mutant: the Close is deferred after the status check.
DeferredClosesOn2xx(r) == IF r # NoResp /\ StatusOK(r.StatusCode) THEN 1 ELSE 0

\* The Close calls Client.do has deferred on the body of a response when it
\* returns: defer resp.Body.Close(), registered once a response is there.
\* (The gzip reader's Close does not close the body it reads from.)
DeferredCloses(r) == IF r # NoResp THEN 1 ELSE 0

\* Client.do has returned (its locals and deferred calls are gone).  Without
\* a retrier its values are Client.Do's; with one, the closure stores them in
\* result and err and hands the error to Run as ret.
DoReturn(c) ==
    /\ pc[c] = "doRet"
    /\ err' = [err EXCEPT ![c] = doErr[c]]
    /\ IF retrier.set
       THEN /\ result' = [result EXCEPT
                    ![c] = ClosureResult(result[c], doResult[c], doErr[c])]
            /\ ret' = [ret EXCEPT ![c] = doErr[c]]
            /\ pc' = [pc EXCEPT ![c] = "classify"]
       ELSE /\ result' = [result EXCEPT ![c] = doResult[c]]
            /\ pc' = [pc EXCEPT ![c] = "DoRet"]
            /\ UNCHANGED ret
    /\ ctx' = [ctx EXCEPT ![c] = CallerCtx(c)]
    /\ opts' = [opts EXCEPT ![c] = <<>>]
    /\ applied' = [applied EXCEPT ![c] = <<>>]
    /\ resp' = [resp EXCEPT ![c] = NoResp]
    /\ bodyRead' = [bodyRead EXCEPT ![c] = FALSE]
    /\ UNCHANGED <<clientVars, cancelled, args, wrapVars, retries, req,
                   doResult, doErr, obsVars>>
    /\ openBodies' = [openBodies EXCEPT ![c] = @ - DeferredCloses(resp[c])]
    /\ aliased' = [aliased EXCEPT ![c] = FALSE]
    /\ UNCHANGED <<reqOptsCap, spare>>

\* switch r.class.Classify(ret): Succeed and Fail return ret; Retry returns
\* ret when the backoff is used up and sleeps otherwise; err = Run(...).
RunClassify(c) ==
    /\ pc[c] = "classify"
    /\ LET a == ClassifyWith(retrier.class, ret[c]) IN
        IF Stops(a) \/ (a = "Retry" /\ RetriesExhausted(retries[c], retrier.backoff))
        THEN /\ err' = [err EXCEPT ![c] = ret[c]]
             /\ pc' = [pc EXCEPT ![c] = "DoRet"]
        ELSE /\ pc' = [pc EXCEPT ![c] = IF a = "Retry" THEN "sleep" ELSE "newReq"]
             /\ UNCHANGED err
    /\ UNCHANGED <<clientVars, cancelled, args, wrapVars, result, ret, retries,
                   doVars, obsVars>>
    /\ UNCHANGED heapVars

\* time.Sleep(r.calcSleep(retries)); retries++
Sleep(c) ==
    /\ pc[c] = "sleep"
    /\ retries' = [retries EXCEPT ![c] = @ + 1]
    /\ pc' = [pc EXCEPT ![c] = "newReq"]
    /\ UNCHANGED <<clientVars, cancelled, args, wrapVars, result, err, ret,
                   doVars, obsVars>>
    /\ UNCHANGED heapVars

----------------------------------------------------------------------------
\* After Client.Do.

\* return result, err -- to the caller, or to the wrapper, which returns the
\* error or goes on to decode a non-empty result into a supplied destination.
ClientDoReturn(c) ==
    /\ pc[c] = "DoRet"
    /\ IF args[c].wrapper = "plain"
       THEN /\ pc' = [pc EXCEPT ![c] = "done"]
            /\ UNCHANGED werr
       ELSE IF err[c] # NoErr
       THEN /\ werr' = [werr EXCEPT ![c] = err[c]]
            /\ pc' = [pc EXCEPT ![c] = "done"]
       ELSE /\ pc' = [pc EXCEPT ![c] =
                    IF ShouldDecode(args[c].dest, result[c]) THEN "wDecode" ELSE "done"]
            /\ UNCHANGED werr
    /\ UNCHANGED <<clientVars, cancelled, args, body, callOpts, dest, loopVars,
                   doVars, obsVars>>
    /\ UNCHANGED heapVars

\* codec.Unmarshal([]byte(resultStr), result)
WrapperDecode(c) ==
    /\ pc[c] = "wDecode"
    /\ LET u == Unmarshal(args[c].wrapper, result[c]) IN
        IF u.err # NoErr
        THEN /\ Emit(c, Record("Error", "unmarshal response body", u.err, Absent, Absent))
             /\ werr' = [werr EXCEPT ![c] = u.err]
             /\ \E d \in PartialDecodes(dest[c]) : dest' = [dest EXCEPT ![c] = d]
        ELSE /\ dest' = [dest EXCEPT ![c] = u.val]
             /\ UNCHANGED <<werr, logs>>
    /\ pc' = [pc EXCEPT ![c] = "done"]
    /\ UNCHANGED <<clientVars, cancelled, args, body, callOpts, loopVars, doVars,
                   attempts, dispatches, okAttempts, sent>>
    /\ UNCHANGED heapVars

----------------------------------------------------------------------------
\* The environment.

\* The caller cancels the context it passed while the attempt is blocked in
\* the transport.
Cancel(c) ==
    /\ pc[c] = "inflight"
    /\ c \notin cancelled
    /\ cancelled' = cancelled \cup {c}
    /\ UNCHANGED <<clientVars, pc, args, wrapVars, loopVars, doVars, obsVars>>
    /\ UNCHANGED heapVars

----------------------------------------------------------------------------

Next ==
    \E c \in Calls :
        \/ WrapperEncode(c)
        \/ ClientDo(c)
        \/ NewRequest(c)
        \/ AppendOpts(c)
        \/ ApplyOpt(c)
        \/ CheckTimeout(c)
        \/ SetTimeout(c)
        \/ Dispatch(c)
        \/ TransportError(c)
        \/ TransportResponse(c)
        \/ CheckStatus(c)
        \/ OpenReader(c)
        \/ ReadAll(c)
        \/ DoReturn(c)
        \/ RunClassify(c)
        \/ Sleep(c)
        \/ ClientDoReturn(c)
        \/ WrapperDecode(c)
        \/ Cancel(c)

\* One call at a time.
Spec == Init /\ [][Next]_vars

\* Two calls at once.
SpecConc == InitConc /\ [][Next]_vars

----------------------------------------------------------------------------
\* The accesses to fields of the shared Client that the next step of a call
\* makes: Client.Do reads retrier; Client.do reads reqOpts, reads and may
\* write Timeout, reads logger and debugTraffic, and http.Client.Do reads
\* Timeout, Transport and Jar.
Access(c) ==
    CASE pc[c] = "Do" -> {[field |-> "retrier", write |-> FALSE]}
      [] pc[c] = "append" -> {[field |-> "reqOpts", write |-> FALSE]}
      [] pc[c] = "chkTimeout" -> {[field |-> "Timeout", write |-> FALSE]}
      [] pc[c] = "setTimeout" -> {[field |-> "Timeout", write |-> TRUE]}
      [] pc[c] = "dispatch" ->
            {[field |-> f, write |-> FALSE] :
                f \in {"logger", "debugTraffic", "Timeout", "Transport", "Jar"}}
      [] pc[c] = "read" -> {[field |-> "debugTraffic", write |-> FALSE]}
      [] pc[c] \in {"wEncode", "wDecode"} -> {[field |-> "logger", write |-> FALSE]}
      [] OTHER -> {}

\* Two calls are about to touch the same field, one of them writing, with
\* nothing ordering the two accesses.
Race(c1, c2) ==
    \E a1 \in Access(c1), a2 \in Access(c2) :
        a1.field = a2.field /\ (a1.write \/ a2.write)

----------------------------------------------------------------------------
\* Properties.

Returned(c) == pc[c] = "DoRet"

IsPrefix(s, t) == Len(s) <= Len(t) /\ \A i \in 1..Len(s) : s[i] = t[i]

\* C1: with a backoff schedule of length N and a classifier that returns
\* Retry for every outcome, Client.Do never makes more than N+1 attempts,
\* has made exactly N+1 when it returns, and returns the error of the last
\* attempt.
C1_RetryTermination ==
    \A c \in Calls :
        (retrier.set /\ retrier.class = AlwaysRetry) =>
            /\ attempts[c] <= Len(retrier.backoff) + 1
            /\ Returned(c) =>
                /\ attempts[c] = Len(retrier.backoff) + 1
                /\ err[c] = doErr[c]

\* C1 happens: every backoff entry was used, an earlier attempt had returned
\* nil and the call returns the error of the last one.
C1_Witness ==
    \E c \in Calls :
        /\ retrier.set /\ retrier.class = AlwaysRetry
        /\ Len(retrier.backoff) = MaxBackoff
        /\ Returned(c) /\ okAttempts[c] >= 1 /\ err[c] # NoErr

\* C2: with a retry policy whose classifier answers Succeed to a nil error,
\* the first attempt that returns nil is the last one: no backoff wait and no
\* attempt follows it, and Client.Do returns its body with a nil error.
C2_SucceedStops ==
    \A c \in Calls :
        (/\ retrier.set
         /\ ClassifyWith(retrier.class, NoErr) = "Succeed"
         /\ okAttempts[c] >= 1) =>
            /\ okAttempts[c] = 1
            /\ doErr[c] = NoErr
            /\ pc[c] \in {"doRet", "classify", "DoRet", "wDecode", "done"}
            /\ pc[c] \in {"DoRet", "wDecode", "done"} =>
                    err[c] = NoErr /\ result[c] = doResult[c]

\* C2 happens: a call returns after a successful attempt with backoff entries
\* left.
C2_Witness ==
    \E c \in Calls :
        /\ retrier.set /\ ClassifyWith(retrier.class, NoErr) = "Succeed"
        /\ Returned(c) /\ okAttempts[c] = 1
        /\ retries[c] = 1 /\ Len(retrier.backoff) = MaxBackoff

\* C3 as claimed: an attempt that got a response returns the decoded body and
\* a nil error when the status is in [200,300), and otherwise an empty result
\* and the HTTPError of that code and status text, the body unread.
C3_Original ==
    \A c \in Calls :
        (pc[c] = "doRet" /\ resp[c] # NoResp) =>
            IF resp[c].StatusCode \in 200..299
            THEN /\ doErr[c] = NoErr
                 /\ doResult[c] = (IF resp[c].ContentEncoding = "gzip"
                                   THEN Gunzip(resp[c].Body) ELSE resp[c].Body)
            ELSE /\ doResult[c] = ""
                 /\ doErr[c] = HTTPError(resp[c].StatusCode, resp[c].Status)
                 /\ ~bodyRead[c]

\* The body of a response can be opened and read to its end.
BodyReadable(r) == r.readOK /\ (r.ContentEncoding = "gzip" => IsGzip(r.Body))

\* C3 (amended): for a status in [200,300) the attempt returns the decoded
\* body and a nil error when the body can be opened and read, and an empty
\* result with the gzip or read error when it cannot; for a status outside
\* [200,300) it returns an empty result and the HTTPError of exactly that
\* code and status text, and the body is never read.
C3_StatusMapping ==
    \A c \in Calls :
        (pc[c] = "doRet" /\ resp[c] # NoResp) =>
            IF resp[c].StatusCode \in 200..299
            THEN IF BodyReadable(resp[c])
                 THEN /\ doErr[c] = NoErr
                      /\ doResult[c] = (IF resp[c].ContentEncoding = "gzip"
                                        THEN Gunzip(resp[c].Body) ELSE resp[c].Body)
                 ELSE /\ doErr[c].kind \in {"gzip", "read"}
                      /\ doResult[c] = ""
            ELSE /\ doResult[c] = ""
                 /\ doErr[c] = HTTPError(resp[c].StatusCode, resp[c].Status)
                 /\ ~bodyRead[c]

\* C3 happens: a 200 response whose body is not gzip although its header
\* says so ends the attempt with an error.
C3_Witness ==
    \E c \in Calls :
        /\ pc[c] = "doRet" /\ resp[c].StatusCode = 200
        /\ resp[c].ContentEncoding = "gzip" /\ ~IsGzip(resp[c].Body)
        /\ doErr[c] = Err("gzip", 0, "") /\ doResult[c] = ""

\* C4 as claimed: every attempt has emitted exactly one diagnostic record
\* when it returns.
C4_OneRecordPerAttempt ==
    \A c \in Calls : pc[c] = "doRet" => Len(logs[c]) = 1

\* An option that was run and returned an error.
Failed(o) == OptApply(o, Background, NoReq).err # NoErr

\* C5: in an attempt the options run are a prefix of the client defaults
\* followed by the call's options; only the last option run can have failed;
\* the transport is dispatched only after every option ran; an attempt whose
\* k-th option fails returns that option's error and an empty result without
\* a dispatch.
C5_OptionOrder ==
    \A c \in Calls :
        /\ IsPrefix(applied[c], reqOpts \o callOpts[c])
        /\ \A i \in 1..(Len(applied[c]) - 1) : ~Failed(applied[c][i])
        /\ pc[c] \in {"chkTimeout", "setTimeout", "dispatch", "inflight",
                      "status", "encoding", "read"} =>
                applied[c] = reqOpts \o callOpts[c]
        /\ (Len(applied[c]) > 0 /\ Failed(applied[c][Len(applied[c])])) =>
                /\ pc[c] = "doRet"
                /\ doErr[c] = Err("option", 0, applied[c][Len(applied[c])].key)
                /\ doResult[c] = ""
                /\ dispatches[c] = 0

\* C5 happens: after a default option, the first call option fails and the
\* second is not run.
C5_Witness ==
    \E c \in Calls :
        /\ pc[c] = "doRet"
        /\ Len(reqOpts) = 1 /\ Len(callOpts[c]) = 2
        /\ Len(applied[c]) = 2 /\ Failed(applied[c][2])
        /\ doErr[c].kind = "option"

\* C6 as claimed: no call writes a field of the shared configuration that
\* another call reads or writes.
C6_NoSharedWrite ==
    \A c1 \in Calls : \A c2 \in Calls \ {c1} : ~Race(c1, c2)

\* C7 as claimed: once the caller's context (as replaced by the options) is
\* cancelled while the attempt is blocked in the transport, the transport
\* ends the dispatch with a cancellation error.
C7_CancelAbortsDispatch ==
    \A c \in Calls :
        (pc[c] = "inflight" /\ ctx[c].root \in cancelled) =>
            /\ req[c].ctx = ctx[c]
            /\ Err("context canceled", 0, "") \in TransportErrors(req[c])

\* C8: the default classifier answers Succeed to nil and Retry to every other
\* error an attempt returns, so a SetRetry client returns an error only after
\* N+1 attempts, and it is the last attempt's error.
C8_DefaultClassifier ==
    \A c \in Calls :
        /\ Classify(doErr[c]) = (IF doErr[c].kind = "nil" THEN "Succeed" ELSE "Retry")
        /\ (retrier.set /\ ~retrier.class.custom /\ Returned(c) /\ err[c] # NoErr) =>
                /\ attempts[c] = Len(retrier.backoff) + 1
                /\ okAttempts[c] = 0
                /\ err[c] = doErr[c]

\* C8 happens: the server answered 404 and then 503 on every later attempt,
\* and the call returns HTTPError 503 after every backoff entry was used.
C8_Witness ==
    \E c \in Calls :
        /\ retrier = SetRetry(Backoff(MaxBackoff))
        /\ Returned(c)
        /\ attempts[c] = MaxBackoff + 1
        /\ err[c] = HTTPError(503, "503 Service Unavailable")

\* C9: a wrapper call that failed to encode its body ends with no attempt
\* and no dispatch made; one that failed to decode the response has ended,
\* after a Client.Do that returned nil, whatever the retry policy.
C9_CodecFailureNotRetried ==
    \A c \in Calls :
        /\ werr[c].kind = "marshal" =>
                pc[c] = "done" /\ attempts[c] = 0 /\ dispatches[c] = 0
        /\ werr[c].kind = "unmarshal" =>
                pc[c] = "done" /\ err[c] = NoErr /\ attempts[c] = retries[c] + 1

\* C9 happens: the response could not be decoded while a backoff entry was
\* left.
C9_Witness ==
    \E c \in Calls :
        /\ werr[c].kind = "unmarshal"
        /\ retrier.set /\ retries[c] < Len(retrier.backoff)

\* C10: whenever Client.Do returns a non-nil error, the result it returns is
\* empty.
C10_ResultOrError ==
    \A c \in Calls :
        (pc[c] \in {"DoRet", "wDecode", "done"} /\ err[c] # NoErr) => result[c] = ""

\* C10 happens: an attempt succeeded, the classifier asked for a retry, and
\* the call returns the error of a later attempt.
C10_Witness ==
    \E c \in Calls :
        /\ Returned(c) /\ retrier.set
        /\ okAttempts[c] >= 1 /\ err[c] # NoErr

\* C11: every attempt of a call dispatches a request built anew: at every
\* dispatch the headers and the query are those of the first dispatch of the
\* call, nothing an option did in an earlier attempt is still there, and the
\* body is the full body of the call.
C11_FreshRequestPerAttempt ==
    \A c \in Calls :
        pc[c] = "inflight" =>
            /\ req[c].header = sent[c].header
            /\ req[c].query = sent[c].query
            /\ req[c].body = body[c]
            /\ sent[c].body = body[c]

\* C11 happens: the second attempt of a call whose options add to the query
\* and set a header is dispatched.
C11_Witness ==
    \E c \in Calls :
        /\ pc[c] = "inflight" /\ attempts[c] = 2 /\ dispatches[c] = 2
        /\ args[c].query = <<Pair("y", "b"), Pair("x", "0")>>
        /\ req[c].query = <<Pair("x", "0"), Pair("x", "1"), Pair("y", "b"), Pair("y", "c")>>
        /\ req[c].header["X-Trace"] = "t1"

\* C17: SetQuery is an additive merge: when the option has run, the value
\* list of every key in the request query is the list the key had before
\* followed by the values supplied for it, in the order they were given.
C17_SetQueryAdditive ==
    [][\A c \in Calls :
        (/\ pc[c] = "applyOpts"
         /\ Len(applied'[c]) = Len(applied[c]) + 1
         /\ applied'[c][Len(applied'[c])].kind = "SetQuery") =>
            \A k \in QueryKeys :
                ValuesFor(req'[c].query, k) =
                    ValuesFor(req[c].query, k) \o applied'[c][Len(applied'[c])].values[k]
      ]_vars

\* C17 happens: SetQuery({x: [1, 2]}) has run on ?x=0 and the query is
\* x=0, x=1, x=2.
C17_Witness ==
    \E c \in Calls :
        /\ args[c].query = <<Pair("x", "0")>>
        /\ applied[c] = <<SetQuery(Vals(<<"1", "2">>, <<>>))>>
        /\ req[c].query = <<Pair("x", "0"), Pair("x", "1"), Pair("x", "2")>>

\* The last value the options of a list set for a header, or the value
\* before when none of them sets it.
RECURSIVE LastSet(_, _, _)
LastSet(os, key, before) ==
    IF os = <<>> THEN before
    ELSE LastSet(Tail(os), key,
                 IF Head(os).kind = "SetHeader" /\ Head(os).key = key
                 THEN Head(os).value ELSE before)

\* The Content-Type of a wrapper: JSON or XML.
WrapperType(w) ==
    IF w = "json" THEN "application/json; charset=UTF-8"
    ELSE "application/xml; charset=UTF-8"

\* C12: in every attempt of a call through the JSON or XML wrapper the
\* options run in the order client defaults, the wrapper's content-type
\* option, the caller's options, and the Content-Type at dispatch is the
\* wrapper's unless an option of the caller sets one, which then wins.
C12_WrapperContentTypeFirst ==
    \A c \in Calls :
        (args[c].wrapper # "plain" /\ pc[c] = "inflight") =>
            /\ applied[c] = reqOpts \o <<Opt("SetHeader", "Content-Type",
                                             WrapperType(args[c].wrapper))>>
                                    \o args[c].reqOpts
            /\ req[c].header["Content-Type"] =
                    LastSet(args[c].reqOpts, "Content-Type", WrapperType(args[c].wrapper))

\* C12 happens: the second attempt of a JSON call whose caller sets
\* text/plain last, on a client whose default sets the form type, is
\* dispatched with text/plain.
C12_Witness ==
    \E c \in Calls :
        /\ args[c].wrapper = "json" /\ pc[c] = "inflight" /\ attempts[c] = 2
        /\ reqOpts = <<SetTypeForm>>
        /\ args[c].reqOpts = <<SetTypeForm, SetHeader("Content-Type", "text/plain")>>
        /\ req[c].header["Content-Type"] = "text/plain"

\* The wrapper has returned.
WrapperReturned(c) == args[c].wrapper # "plain" /\ pc[c] = "done"

\* C13: a wrapper call writes to the caller's destination only when
\* Client.Do returned nil, a destination was supplied and the body is not
\* empty; when Client.Do fails, the body is empty or no destination was
\* supplied the destination is as the caller left it, and in the last two
\* cases the wrapper returns nil.
C13_DestinationWrittenOnSuccessOnly ==
    \A c \in Calls :
        /\ dest[c] # "" =>
                /\ args[c].wrapper # "plain" /\ pc[c] = "done"
                /\ attempts[c] >= 1 /\ err[c] = NoErr
                /\ args[c].dest /\ result[c] # ""
        /\ (WrapperReturned(c) /\ attempts[c] >= 1 /\ err[c] # NoErr) =>
                dest[c] = "" /\ werr[c] = err[c]
        /\ (WrapperReturned(c) /\ attempts[c] >= 1 /\ err[c] = NoErr
             /\ (result[c] = "" \/ ~args[c].dest)) =>
                dest[c] = "" /\ werr[c] = NoErr

\* C13 happens: a wrapper call with a destination got an empty 200 body
\* after a retry and returns nil with the destination untouched.
C13_Witness ==
    \E c \in Calls :
        /\ WrapperReturned(c) /\ args[c].dest /\ attempts[c] = 2
        /\ err[c] = NoErr /\ result[c] = ""
        /\ dest[c] = "" /\ werr[c] = NoErr

\* The records of Client.do, as opposed to those of the wrappers.
PipelineRecord(rec) ==
    rec.msg \notin {"marshal request body", "unmarshal response body"}

\* C14: with the traffic toggle off no record of a pipeline attempt carries
\* the request body or the response body, on the success path and on every
\* failure path; with the toggle on the success record carries both.
C14_BodiesLoggedOnlyWhenDebug ==
    \A c \in Calls : \A i \in 1..Len(logs[c]) :
        PipelineRecord(logs[c][i]) =>
            /\ ~debugTraffic =>
                    logs[c][i].body = Absent /\ logs[c][i].result = Absent
            /\ (debugTraffic /\ logs[c][i].msg = "request success") =>
                    /\ logs[c][i].body = body[c]
                    /\ logs[c][i].result = doResult[c]

\* C14 happens: with the toggle off an attempt that sent a body and read a
\* response body has emitted its success record.
C14_Witness ==
    \E c \in Calls :
        /\ ~debugTraffic /\ body[c] # "" /\ pc[c] = "doRet"
        /\ doResult[c] # "" /\ Len(logs[c]) = 1
        /\ logs[c][1].msg = "request success"
        /\ logs[c][1].result = Absent /\ logs[c][1].body = Absent

\* C15: for a 2xx response the text the attempt returns is the decompressed
\* body when the Content-Encoding header is exactly "gzip" and the raw body
\* for every other header value, whatever Accept-Encoding the request
\* carried; a body that cannot be opened as gzip gives an error and an empty
\* result.
C15_GzipByResponseHeader ==
    \A c \in Calls :
        (pc[c] = "doRet" /\ resp[c] # NoResp /\ resp[c].StatusCode \in 200..299) =>
            /\ (doErr[c] = NoErr /\ resp[c].ContentEncoding = "gzip") =>
                    Gzip(doResult[c]) = resp[c].Body
            /\ (doErr[c] = NoErr /\ resp[c].ContentEncoding # "gzip") =>
                    doResult[c] = resp[c].Body
            /\ (resp[c].ContentEncoding = "gzip" /\ ~IsGzip(resp[c].Body)) =>
                    doErr[c] # NoErr /\ doResult[c] = ""
            /\ (resp[c].readOK /\ (resp[c].ContentEncoding = "gzip" => IsGzip(resp[c].Body))) =>
                    doErr[c] = NoErr

\* C15 happens: a request that asked for gzip got a gzip body under the
\* header value GZIP, and the attempt returns the compressed bytes.
C15_Witness ==
    \E c \in Calls :
        /\ pc[c] = "doRet" /\ req[c].header["Accept-Encoding"] = "gzip"
        /\ resp[c].StatusCode = 200 /\ resp[c].ContentEncoding = "GZIP"
        /\ doErr[c] = NoErr /\ doResult[c] = Gzip("{a:1}")

\* C16: every transport dispatch runs with a nonzero client timeout; a step
\* of an attempt changes the timeout only from zero, and then to the default
\* of 15 s: a timeout that is nonzero, configured or defaulted by an earlier
\* attempt, stays as it is.
C16_NonzeroTimeoutAtDispatch ==
    /\ [](\A c \in Calls : pc[c] = "inflight" => Timeout # 0)
    /\ [][/\ Timeout # 0 => Timeout' = Timeout
          /\ Timeout = 0 => Timeout' \in {0, 15}]_vars

\* C16 happens: the second attempt on a client that was built without a
\* timeout is dispatched with the default the first attempt had set.
C16_Witness ==
    \E c \in Calls :
        /\ pc[c] = "inflight" /\ attempts[c] = 2 /\ dispatches[c] = 2
        /\ Timeout = 15

\* The first option of a list that fails, when there is one.
FailingOpts(os) == {i \in 1..Len(os) : Failed(os[i])}

FirstFailing(os) ==
    os[CHOOSE i \in FailingOpts(os) : \A j \in FailingOpts(os) : i <= j]

\* C18: a call whose option list fails never dispatches the transport; with
\* a retry policy of backoff length N and the default classifier it has run
\* N+1 attempts when it returns, without a retry policy one, and it returns
\* the error of the failing option with an empty result.
C18_OptionFailureRetried ==
    \A c \in Calls :
        (/\ args[c].urlOK
         /\ FailingOpts(reqOpts \o callOpts[c]) # {}
         /\ retrier.class = DefaultRetryClassifier
         /\ pc[c] \notin {"off", "wEncode"}) =>
            /\ dispatches[c] = 0
            /\ attempts[c] <= (IF retrier.set THEN Len(retrier.backoff) + 1 ELSE 1)
            /\ Returned(c) =>
                /\ attempts[c] = (IF retrier.set THEN Len(retrier.backoff) + 1 ELSE 1)
                /\ err[c] = Err("option", 0, FirstFailing(reqOpts \o callOpts[c]).key)
                /\ result[c] = ""

\* C18 happens: under the longest backoff a call whose second call option
\* fails returns after running its options once more than the backoff is
\* long.
C18_Witness ==
    \E c \in Calls :
        /\ Returned(c) /\ retrier.set /\ Len(retrier.backoff) = MaxBackoff
        /\ Len(callOpts[c]) = 2 /\ Failed(callOpts[c][2])
        /\ attempts[c] = MaxBackoff + 1 /\ dispatches[c] = 0
        /\ err[c] = Err("option", 0, "A")

\* The elements of a list.
Range(os) == {os[i] : i \in DOMAIN os}

\* C19: no step of any call changes the stored default option list, and
\* the options a call has run are the stored defaults followed by options of
\* its own: never a call-specific option of another call made at the same
\* time.
C19_DefaultsNeverModified ==
    /\ [][reqOpts' = reqOpts]_vars
    /\ [](\A c \in Calls : \A i \in 1..Len(applied[c]) :
            /\ i <= Len(reqOpts) => applied[c][i] = reqOpts[i]
            /\ i > Len(reqOpts) => applied[c][i] = callOpts[c][i - Len(reqOpts)]
            /\ \A d \in Calls \ {c} :
                    applied[c][i] \in Range(callOpts[d]) =>
                        applied[c][i] \in Range(reqOpts) \cup Range(callOpts[c]))

\* C19 happens: two calls with a call option of their own each have both
\* appended it to the defaults and run it.
C19_Witness ==
    /\ reqOpts = <<SetTypeForm>>
    /\ applied["c1"] = <<SetTypeForm, SetHeader("X-Trace", "t1")>>
    /\ applied["c2"] = <<SetTypeForm, SetHeader("X-Trace", "t2")>>

\* C20: a call holds the body of a response open from the moment the
\* transport delivers it until the attempt returns, and not after: the body
\* is closed once on every way out of the attempt, so a call never has two
\* bodies open, has none open when the next attempt is made, and none when
\* Client.Do has returned.
C20_BodyClosedOnce ==
    \A c \in Calls :
        openBodies[c] =
            (IF pc[c] \in {"status", "encoding", "read", "doRet"} /\ resp[c] # NoResp
             THEN 1 ELSE 0)

\* C20 happens: the second attempt is about to be made after a first one
\* that ended on a bad status, and no body is open.
C20_Witness ==
    \E c \in Calls :
        /\ pc[c] = "sleep" /\ attempts[c] = 1 /\ dispatches[c] = 1
        /\ doErr[c] = HTTPError(503, "503 Service Unavailable")
        /\ openBodies[c] = 0

====
